---- MODULE Spec2Model ----
(***************************************************************************)
(* A model of lib/phtree.c and tools/include/linux/phtree.h: the intrusive *)
(* red-black balancing engine (insert fixup, erase, in-order and postorder *)
(* traversal, node replacement and its reader-safe variant).               *)
(*                                                                         *)
(* A tree value T is a record                                              *)
(*   root          the ph_root's ph_node                                   *)
(*   l, r          every node's ph_left / ph_right                         *)
(*   p, c          every node's parent reference and colour (the packed    *)
(*                 parent+colour word, kept as two fields)                 *)
(*   aug           every node's cached aggregate (augmented trees)         *)
(*   fault         TRUE once a step dereferenced an absent node            *)
(*   log           the rotate callbacks, recolour steps, RED parents found *)
(*                 and faults of the operation in progress, in order       *)
(* Nodes are caller-owned records; node k carries the caller's key k.      *)
(***************************************************************************)
EXTENDS Integers, Sequences, FiniteSets, TLC

\* ------------------------------------------------------------------ bounds
\* Keys the general insert/erase/replace runs draw from.
MaxKey == 7
\* Size of the tree the erase-the-root scenario builds.
DrainSize == 10
\* Replacements the writer makes under the concurrent reader.
MaxReplace == 2
\* Keys the postorder-destruction runs draw from.
WalkKeys == 5

Largest(S) == CHOOSE x \in S : \A y \in S : y <= x

\* The tree under the concurrent reader holds the even keys; the odd keys
\* between them are the replacement nodes.
RcuKeys == {2, 4, 6, 8, 10}

NumNodes == Largest({MaxKey, DrainSize, Largest(RcuKeys) + 1, WalkKeys})

\* ------------------------------------------------------- program constants
ph_RED == 0
ph_BLACK == 1

NIL == 0
\* What a field of uninitialised or invalidated storage holds.
POISON == -1
Nodes == 1..NumNodes
Keys == 1..MaxKey

VARIABLES
    root,       \* struct ph_root.ph_node
    ph_left,    \* struct ph_node.ph_left, per node
    ph_right,   \* struct ph_node.ph_right, per node
    parent,     \* parent half of the packed parent+colour word, per node
    color,      \* colour half of the packed parent+colour word, per node
    aug,        \* the caller's cached aggregate, per node
    op,         \* the last completed operation and its arguments
    events,     \* what that operation logged: callbacks, recolourings, ...
    ascending,  \* length of the run of ascending inserts from the empty tree
    phase,      \* scenario phase: "build", then "drain" or "walk"
    drained,    \* erase-the-root scenario: roots erased so far
    wstep,      \* writer: next statement of ph_replace_node_rcu, 0 when idle
    wvictim,    \* writer: ph_replace_node_rcu's victim
    wnew,       \* writer: ph_replace_node_rcu's new
    wparent,    \* writer: ph_replace_node_rcu's local parent
    replaced,   \* writer: replacements completed
    rpc,        \* reader: position in its ph_first / ph_next walk
    rcur,       \* reader: the node it stands on
    rpar,       \* reader: ph_next's local parent
    rfault,     \* reader: it has read an uninitialised field
    rseen,      \* reader: its single walk's last returned node, and every
                \* pair of nodes it returned one after the other
    pstep,      \* postorder loop: next part of the loop to run
    ppos,       \* postorder loop: pos
    pnext,      \* postorder loop: n
    visited,    \* postorder loop: nodes handed to the body, in order
    invalid,    \* postorder loop: nodes the body has invalidated
    pfault,     \* postorder loop: a field of an invalidated node was read
    pnodes      \* postorder loop: the nodes linked when the loop began

rcuVars ==
    <<wstep, wvictim, wnew, wparent, replaced, rpc, rcur, rpar, rfault, rseen>>

walkVars == <<pstep, ppos, pnext, visited, invalid, pfault, pnodes>>

vars ==
    <<root, ph_left, ph_right, parent, color, aug, op, events, ascending,
      phase, drained, rcuVars, walkVars>>

treeVars == <<root, ph_left, ph_right, parent, color, aug>>

\* The tree the variables hold, as a value the operators below transform.
Cur ==
    [root |-> root, l |-> ph_left, r |-> ph_right, p |-> parent, c |-> color,
     aug |-> aug, fault |-> FALSE, log |-> <<>>]

\* The tree the variables hold after the step.
CurNext ==
    [root |-> root', l |-> ph_left', r |-> ph_right', p |-> parent',
     c |-> color', aug |-> aug', fault |-> FALSE, log |-> <<>>]

\* ------------------------------------------------- node / root primitives
ph_parent(T, n) == T.p[n]

ph_color(T, n) == T.c[n]

ph_is_red(T, n) == T.c[n] = ph_RED

ph_is_black(T, n) == T.c[n] = ph_BLACK

\* Valid for a RED node only: the packed word of a red node is its parent.
ph_red_parent(T, n) == T.p[n]

ph_set_parent_color(T, n, par, col) ==
    [T EXCEPT !.p[n] = par, !.c[n] = col]

ph_set_parent(T, n, par) == [T EXCEPT !.p[n] = par]

ph_set_black(T, n) == [T EXCEPT !.c[n] = ph_BLACK]

__ph_change_child(T, old, new, par) ==
    IF par # NIL
    THEN IF T.l[par] = old
         THEN [T EXCEPT !.l[par] = new]
         ELSE [T EXCEPT !.r[par] = new]
    ELSE [T EXCEPT !.root = new]

__ph_rotate_set_parents(T, old, new, col) ==
    LET par == ph_parent(T, old)
        T1 == [T EXCEPT !.p[new] = T.p[old], !.c[new] = T.c[old]]
        T2 == ph_set_parent_color(T1, old, new, col)
    IN __ph_change_child(T2, old, new, par)

\* A step dereferenced an absent node; the operation's log records it.
Fault(T) == [T EXCEPT !.fault = TRUE, !.log = Append(T.log, <<"fault">>)]

Logged(T, e) == [T EXCEPT !.log = Append(T.log, e)]

\* --------------------------------------------------- augmentation callbacks
\* The aggregate is the subtree size: own contribution 1 plus both children.
AugOf(T, n) == IF n = NIL THEN 0 ELSE T.aug[n]

size_compute(T, n) == 1 + AugOf(T, T.l[n]) + AugOf(T, T.r[n])

size_rotate(T, old, new) ==
    LET T1 == [T EXCEPT !.aug[new] = T.aug[old]]
    IN [T1 EXCEPT !.aug[old] = size_compute(T1, old)]

\* A default rotate callback that is not a no-op.
dummy_rotate_Recolors(T, old, new) == ph_set_black(T, old)

dummy_rotate(T, old, new) == T

\* A callback reference is the callback's name.
augment_rotate(cb, T, old, new) ==
    Logged(IF cb = "size_rotate" THEN size_rotate(T, old, new)
           ELSE dummy_rotate(T, old, new),
           <<"rotate", old, new>>)

size_copy(T, old, new) == [T EXCEPT !.aug[new] = T.aug[old]]

\* propagate(node, stop): recompute the aggregate of node and of each
\* ancestor below stop, bottom-up.
RECURSIVE size_propagate(_, _, _, _)
size_propagate(T, n, stop, fuel) ==
    IF n = stop \/ n = NIL \/ fuel = 0 THEN T
    ELSE size_propagate([T EXCEPT !.aug[n] = size_compute(T, n)],
                        ph_parent(T, n), stop, fuel - 1)

augment_copy(cbs, T, old, new) ==
    IF cbs = "size_callbacks" THEN size_copy(T, old, new) ELSE T

augment_propagate(cbs, T, n, stop) ==
    IF cbs = "size_callbacks" THEN size_propagate(T, n, stop, NumNodes + 1)
    ELSE T

RotateOf(cbs) ==
    IF cbs = "size_callbacks" THEN "size_rotate" ELSE "dummy_rotate"

\* ------------------------------------------------------------ insert fixup
\* Case 1 of either side without the uncle's recolouring.
InsertCase1_UncleStaysRed(T, par, gparent, tmp) ==
    LET T2 == ph_set_parent_color(T, par, gparent, ph_BLACK)
        node == gparent
        par2 == ph_parent(T2, node)
    IN Logged(ph_set_parent_color(T2, node, par2, ph_RED), <<"case1", node>>)

\* Case 1 of either side with node = parent in place of node = gparent.
InsertCase1_ContinuesAtParent(T, par, gparent, tmp) ==
    LET T1 == ph_set_parent_color(T, tmp, gparent, ph_BLACK)
        T2 == ph_set_parent_color(T1, par, gparent, ph_BLACK)
        node == par
        par2 == ph_parent(T2, node)
    IN Logged(ph_set_parent_color(T2, node, par2, ph_RED), <<"case1", node>>)

\* Case 1 of either side leaving the parent RED.
InsertCase1_ParentStaysRed(T, par, gparent, tmp) ==
    LET T1 == ph_set_parent_color(T, tmp, gparent, ph_BLACK)
        node == gparent
        par2 == ph_parent(T1, node)
    IN Logged(ph_set_parent_color(T1, node, par2, ph_RED), <<"case1", node>>)

\* Case 1 of either side - node's uncle tmp is red: colour flips; the loop
\* then continues at the grandparent.
InsertCase1(T, par, gparent, tmp) ==
    LET T1 == ph_set_parent_color(T, tmp, gparent, ph_BLACK)
        T2 == ph_set_parent_color(T1, par, gparent, ph_BLACK)
        node == gparent
        par2 == ph_parent(T2, node)
    IN Logged(ph_set_parent_color(T2, node, par2, ph_RED), <<"case1", node>>)

\* Left Case 2 without its callback.
InsertLeftCase2_NoCallback(T, cb, node, par) ==
    LET tmp == T.l[node]
        A1 == [T EXCEPT !.r[par] = tmp]
        A2 == [A1 EXCEPT !.l[node] = par]
        A3 == IF tmp # NIL THEN ph_set_parent_color(A2, tmp, par, ph_BLACK)
              ELSE A2
    IN ph_set_parent_color(A3, par, node, ph_RED)

\* Case 2, parent == gparent->ph_left and node == parent->ph_right:
\* left rotate at parent.
InsertLeftCase2(T, cb, node, par) ==
    LET tmp == T.l[node]
        A1 == [T EXCEPT !.r[par] = tmp]
        A2 == [A1 EXCEPT !.l[node] = par]
        A3 == IF tmp # NIL THEN ph_set_parent_color(A2, tmp, par, ph_BLACK)
              ELSE A2
        A4 == ph_set_parent_color(A3, par, node, ph_RED)
    IN augment_rotate(cb, A4, par, node)

\* Left Case 3 without the store gparent->ph_left = tmp.
InsertLeftCase3_KeepsLeft(T, cb, par, gparent, tmp) ==
    LET B2 == [T EXCEPT !.r[par] = gparent]
        B3 == IF tmp # NIL THEN ph_set_parent_color(B2, tmp, gparent, ph_BLACK)
              ELSE B2
        B4 == __ph_rotate_set_parents(B3, gparent, par, ph_RED)
    IN augment_rotate(cb, B4, gparent, par)

\* Left Case 3 handing the callback its arguments in the wrong order.
InsertLeftCase3_SwappedArgs(T, cb, par, gparent, tmp) ==
    LET B1 == [T EXCEPT !.l[gparent] = tmp]
        B2 == [B1 EXCEPT !.r[par] = gparent]
        B3 == IF tmp # NIL THEN ph_set_parent_color(B2, tmp, gparent, ph_BLACK)
              ELSE B2
        B4 == __ph_rotate_set_parents(B3, gparent, par, ph_RED)
    IN augment_rotate(cb, B4, par, gparent)

\* Case 3, parent == gparent->ph_left and node == parent->ph_left:
\* right rotate at gparent; tmp is parent->ph_right.
InsertLeftCase3(T, cb, par, gparent, tmp) ==
    LET B1 == [T EXCEPT !.l[gparent] = tmp]
        B2 == [B1 EXCEPT !.r[par] = gparent]
        B3 == IF tmp # NIL THEN ph_set_parent_color(B2, tmp, gparent, ph_BLACK)
              ELSE B2
        B4 == __ph_rotate_set_parents(B3, gparent, par, ph_RED)
    IN augment_rotate(cb, B4, gparent, par)

\* Right Case 2 leaving parent's parent reference as it was.
InsertRightCase2_StaleParent(T, cb, node, par) ==
    LET tmp == T.r[node]
        A1 == [T EXCEPT !.l[par] = tmp]
        A2 == [A1 EXCEPT !.r[node] = par]
        A3 == IF tmp # NIL THEN ph_set_parent_color(A2, tmp, par, ph_BLACK)
              ELSE A2
    IN augment_rotate(cb, A3, par, node)

\* Right Case 2 colouring the moved inner subtree's root RED.
InsertRightCase2_RedInner(T, cb, node, par) ==
    LET tmp == T.r[node]
        A1 == [T EXCEPT !.l[par] = tmp]
        A2 == [A1 EXCEPT !.r[node] = par]
        A3 == IF tmp # NIL THEN ph_set_parent_color(A2, tmp, par, ph_RED)
              ELSE A2
        A4 == ph_set_parent_color(A3, par, node, ph_RED)
    IN augment_rotate(cb, A4, par, node)

\* Case 2, mirrored: right rotate at parent.
InsertRightCase2(T, cb, node, par) ==
    LET tmp == T.r[node]
        A1 == [T EXCEPT !.l[par] = tmp]
        A2 == [A1 EXCEPT !.r[node] = par]
        A3 == IF tmp # NIL THEN ph_set_parent_color(A2, tmp, par, ph_BLACK)
              ELSE A2
        A4 == ph_set_parent_color(A3, par, node, ph_RED)
    IN augment_rotate(cb, A4, par, node)

\* Right Case 3 leaving the former grandparent BLACK.
InsertRightCase3_KeepsBlack(T, cb, par, gparent, tmp) ==
    LET B1 == [T EXCEPT !.r[gparent] = tmp]
        B2 == [B1 EXCEPT !.l[par] = gparent]
        B3 == IF tmp # NIL THEN ph_set_parent_color(B2, tmp, gparent, ph_BLACK)
              ELSE B2
        B4 == __ph_rotate_set_parents(B3, gparent, par, ph_BLACK)
    IN augment_rotate(cb, B4, gparent, par)

\* Case 3, mirrored: left rotate at gparent; tmp is parent->ph_left.
InsertRightCase3(T, cb, par, gparent, tmp) ==
    LET B1 == [T EXCEPT !.r[gparent] = tmp]
        B2 == [B1 EXCEPT !.l[par] = gparent]
        B3 == IF tmp # NIL THEN ph_set_parent_color(B2, tmp, gparent, ph_BLACK)
              ELSE B2
        B4 == __ph_rotate_set_parents(B3, gparent, par, ph_RED)
    IN augment_rotate(cb, B4, gparent, par)

\* The node the loop continues at after Case 1: the node Case 1 assigned.
Case1Node(T) == T.log[Len(T.log)][2]

\* The loop found node's parent RED and reads gparent = ph_red_parent(parent)
\* and then gparent's child links, without a test.
RedParent(T, par) ==
    LET gparent == ph_red_parent(T, par)
    IN Logged(T, <<"red_parent", par, gparent,
                   gparent # NIL /\ ph_is_black(T, gparent)>>)

\* The while (true) loop of __ph_insert; one unfolding per iteration.  fuel
\* bounds the unfolding so that a malformed (cyclic) tree ends in a fault.
RECURSIVE InsertLoop(_, _, _, _, _)
InsertLoop(T0, cb, node, par, fuel) ==
    IF fuel = 0 THEN Fault(T0)
    ELSE IF par = NIL THEN ph_set_parent_color(T0, node, NIL, ph_BLACK)
    ELSE IF ph_is_black(T0, par) THEN T0
    ELSE LET gparent == ph_red_parent(T0, par)
             T == RedParent(T0, par) IN
         IF gparent = NIL THEN Fault(T)
         ELSE LET tmp == T.r[gparent] IN
              IF par # tmp
              THEN \* parent == gparent->ph_left
                   IF tmp # NIL /\ ph_is_red(T, tmp)
                   THEN LET T1 == InsertCase1(T, par, gparent, tmp)
                            next == Case1Node(T1)
                        IN InsertLoop(T1, cb, next, ph_parent(T1, next),
                                      fuel - 1)
                   ELSE LET inner == (node = T.r[par])
                            T2 == IF inner
                                  THEN InsertLeftCase2(T, cb, node, par) ELSE T
                            par2 == IF inner THEN node ELSE par
                            tmp2 == IF inner THEN T2.r[node] ELSE T.r[par]
                        IN InsertLeftCase3(T2, cb, par2, gparent, tmp2)
              ELSE LET tmpl == T.l[gparent] IN
                   IF tmpl # NIL /\ ph_is_red(T, tmpl)
                   THEN LET T1 == InsertCase1(T, par, gparent, tmpl)
                            next == Case1Node(T1)
                        IN InsertLoop(T1, cb, next, ph_parent(T1, next),
                                      fuel - 1)
                   ELSE LET inner == (node = T.l[par])
                            T2 == IF inner
                                  THEN InsertRightCase2(T, cb, node, par) ELSE T
                            par2 == IF inner THEN node ELSE par
                            tmp2 == IF inner THEN T2.l[node] ELSE T.l[par]
                        IN InsertRightCase3(T2, cb, par2, gparent, tmp2)

__ph_insert(T, node, cb) ==
    InsertLoop(T, cb, node, ph_red_parent(T, node), NumNodes + 1)

ph_insert_color(T, node) == __ph_insert(T, node, "dummy_rotate")

__ph_insert_augmented(T, node, cb) == __ph_insert(T, node, cb)

\* ------------------------------------------------------------------- erase
\* Leftmost node of the subtree at n, with the node above it.
RECURSIVE Leftmost(_, _, _, _)
Leftmost(T, par, n, fuel) ==
    IF fuel = 0 \/ T.l[n] = NIL THEN <<par, n>>
    ELSE Leftmost(T, n, T.l[n], fuel - 1)

\* Splice node out of the tree; the result is <<tree, rebalance>> where
\* rebalance is the parent of a black-height deficiency, or NIL.
__ph_erase_augmented(T, node, cbs) ==
    LET child == T.r[node]
        tmp == T.l[node]
        pcp == T.p[node]
        pcc == T.c[node]
    IN
    IF tmp = NIL
    THEN \* at most one child, on the right
         LET T1 == __ph_change_child(T, node, child, pcp)
             T2 == IF child # NIL
                   THEN ph_set_parent_color(T1, child, pcp, pcc) ELSE T1
             reb == IF child # NIL THEN NIL
                    ELSE IF pcc = ph_BLACK THEN pcp ELSE NIL
         IN <<augment_propagate(cbs, T2, pcp, NIL), reb>>
    ELSE IF child = NIL
    THEN \* one child, on the left
         LET T1 == ph_set_parent_color(T, tmp, pcp, pcc)
             T2 == __ph_change_child(T1, node, tmp, pcp)
         IN <<augment_propagate(cbs, T2, pcp, NIL), NIL>>
    ELSE \* two children: the in-order successor takes node's place
         LET direct == (T.l[child] = NIL)
             lm == Leftmost(T, child, T.l[child], NumNodes)
             par == IF direct THEN child ELSE lm[1]
             successor == IF direct THEN child ELSE lm[2]
             child2 == T.r[successor]
             \* successor is deeper: unhook it, give it node's right subtree
             D1 == [T EXCEPT !.l[par] = child2]
             D2 == [D1 EXCEPT !.r[successor] = child]
             D3 == ph_set_parent(D2, child, successor)
             D4 == augment_copy(cbs, D3, node, successor)
             D5 == augment_propagate(cbs, D4, par, successor)
             E0 == IF direct THEN augment_copy(cbs, T, node, successor) ELSE D5
             tmpl == E0.l[node]
             E1 == [E0 EXCEPT !.l[successor] = tmpl]
             E2 == ph_set_parent(E1, tmpl, successor)
             E3 == __ph_change_child(E2, node, successor, pcp)
             pc2c == E3.c[successor]
             E4 == ph_set_parent_color(E3, successor, pcp, pcc)
             E5 == IF child2 # NIL
                   THEN ph_set_parent_color(E4, child2, par, ph_BLACK) ELSE E4
             reb == IF child2 # NIL THEN NIL
                    ELSE IF pc2c = ph_BLACK THEN par ELSE NIL
         IN <<augment_propagate(cbs, E5, successor, NIL), reb>>

\* node == parent->ph_left (or absent on the left): sibling on the right.
\* Result <<tree, next node, next parent>>; next parent NIL ends the loop.
EraseLeft(T, cb, par) ==
    LET sib0 == T.r[par] IN
    IF sib0 = NIL THEN <<Fault(T), NIL, NIL>>
    ELSE
    LET red == ph_is_red(T, sib0)
        \* Case 1 - sibling red: left rotate at parent
        t1 == T.l[sib0]
        A1 == [T EXCEPT !.r[par] = t1]
        A2 == [A1 EXCEPT !.l[sib0] = par]
        A3 == ph_set_parent_color(A2, t1, par, ph_BLACK)
        A4 == __ph_rotate_set_parents(A3, par, sib0, ph_RED)
        A5 == augment_rotate(cb, A4, par, sib0)
        B == IF red THEN A5 ELSE T
        sibling == IF red THEN t1 ELSE sib0
    IN
    IF red /\ t1 = NIL THEN <<Fault(T), NIL, NIL>>
    ELSE
    LET far == B.r[sibling]
        near == B.l[sibling]
    IN
    IF (far = NIL \/ ph_is_black(B, far)) /\ (near = NIL \/ ph_is_black(B, near))
    THEN \* Case 2 - sibling colour flip
         LET C1 == Logged(ph_set_parent_color(B, sibling, par, ph_RED),
                          <<"flip", sibling>>)
         IN IF ph_is_red(C1, par) THEN <<ph_set_black(C1, par), NIL, NIL>>
            ELSE <<C1, par, ph_parent(C1, par)>>
    ELSE
    LET inner == (far = NIL \/ ph_is_black(B, far))
        \* Case 3 - near nephew red: right rotate at sibling
        t1b == B.r[near]
        D1 == [B EXCEPT !.l[sibling] = t1b]
        D2 == [D1 EXCEPT !.r[near] = sibling]
        D3 == [D2 EXCEPT !.r[par] = near]
        D4 == IF t1b # NIL THEN ph_set_parent_color(D3, t1b, sibling, ph_BLACK)
              ELSE D3
        D5 == augment_rotate(cb, D4, sibling, near)
        E0 == IF inner THEN D5 ELSE B
        tmp1 == IF inner THEN sibling ELSE far
        sib4 == IF inner THEN near ELSE sibling
        \* Case 4 - far nephew red: left rotate at parent
        tmp2 == E0.l[sib4]
        E1 == [E0 EXCEPT !.r[par] = tmp2]
        E2 == [E1 EXCEPT !.l[sib4] = par]
        E3 == ph_set_parent_color(E2, tmp1, sib4, ph_BLACK)
        E4 == IF tmp2 # NIL THEN ph_set_parent(E3, tmp2, par) ELSE E3
        E5 == __ph_rotate_set_parents(E4, par, sib4, ph_BLACK)
    IN <<augment_rotate(cb, E5, par, sib4), NIL, NIL>>

\* node == parent->ph_right: the mirror image.
EraseRight(T, cb, par) ==
    LET sib0 == T.l[par] IN
    IF sib0 = NIL THEN <<Fault(T), NIL, NIL>>
    ELSE
    LET red == ph_is_red(T, sib0)
        t1 == T.r[sib0]
        A1 == [T EXCEPT !.l[par] = t1]
        A2 == [A1 EXCEPT !.r[sib0] = par]
        A3 == ph_set_parent_color(A2, t1, par, ph_BLACK)
        A4 == __ph_rotate_set_parents(A3, par, sib0, ph_RED)
        A5 == augment_rotate(cb, A4, par, sib0)
        B == IF red THEN A5 ELSE T
        sibling == IF red THEN t1 ELSE sib0
    IN
    IF red /\ t1 = NIL THEN <<Fault(T), NIL, NIL>>
    ELSE
    LET far == B.l[sibling]
        near == B.r[sibling]
    IN
    IF (far = NIL \/ ph_is_black(B, far)) /\ (near = NIL \/ ph_is_black(B, near))
    THEN LET C1 == Logged(ph_set_parent_color(B, sibling, par, ph_RED),
                          <<"flip", sibling>>)
         IN IF ph_is_red(C1, par) THEN <<ph_set_black(C1, par), NIL, NIL>>
            ELSE <<C1, par, ph_parent(C1, par)>>
    ELSE
    LET inner == (far = NIL \/ ph_is_black(B, far))
        t1b == B.l[near]
        D1 == [B EXCEPT !.r[sibling] = t1b]
        D2 == [D1 EXCEPT !.l[near] = sibling]
        D3 == [D2 EXCEPT !.l[par] = near]
        D4 == IF t1b # NIL THEN ph_set_parent_color(D3, t1b, sibling, ph_BLACK)
              ELSE D3
        D5 == augment_rotate(cb, D4, sibling, near)
        E0 == IF inner THEN D5 ELSE B
        tmp1 == IF inner THEN sibling ELSE far
        sib4 == IF inner THEN near ELSE sibling
        tmp2 == E0.r[sib4]
        E1 == [E0 EXCEPT !.l[par] = tmp2]
        E2 == [E1 EXCEPT !.r[sib4] = par]
        E3 == ph_set_parent_color(E2, tmp1, sib4, ph_BLACK)
        E4 == IF tmp2 # NIL THEN ph_set_parent(E3, tmp2, par) ELSE E3
        E5 == __ph_rotate_set_parents(E4, par, sib4, ph_BLACK)
    IN <<augment_rotate(cb, E5, par, sib4), NIL, NIL>>

\* The erase fixup loop: node is black (or absent on the first iteration)
\* and every path through it is one black node short.
RECURSIVE EraseLoop(_, _, _, _, _)
EraseLoop(T, cb, node, par, fuel) ==
    IF fuel = 0 THEN Fault(T)
    ELSE LET res == IF node # T.r[par] THEN EraseLeft(T, cb, par)
                    ELSE EraseRight(T, cb, par)
         IN IF res[3] = NIL THEN res[1]
            ELSE EraseLoop(res[1], cb, res[2], res[3], fuel - 1)

____ph_erase_color(T, par, cb) == EraseLoop(T, cb, NIL, par, NumNodes + 1)

\* ph_erase without the rebalancing pass.
ph_erase_NoRebalance(T, node) ==
    __ph_erase_augmented(T, node, "dummy_callbacks")[1]

ph_erase(T, node) ==
    LET res == __ph_erase_augmented(T, node, "dummy_callbacks")
        rebalance == res[2]
    IN IF rebalance # NIL
       THEN ____ph_erase_color(res[1], rebalance, "dummy_rotate")
       ELSE res[1]

\* PH_CLEAR_NODE(node): the macro's replacement text is empty.
PH_CLEAR_NODE(T, node) == T

ph_erase_init(T, n) == PH_CLEAR_NODE(ph_erase(T, n), n)

\* The augmented erase entry point, with the caller's callback set.
ph_erase_augmented(T, node, cbs) ==
    LET res == __ph_erase_augmented(T, node, cbs)
        rebalance == res[2]
    IN IF rebalance # NIL
       THEN ____ph_erase_color(res[1], rebalance, RotateOf(cbs))
       ELSE res[1]

\* --------------------------------------------------------------- traversal
\* 'empty' nodes: the packed word equals the node's own address.
PH_EMPTY_NODE(T, n) == T.p[n] = n /\ T.c[n] = ph_RED

RECURSIVE DescendLeft(_, _, _)
DescendLeft(T, n, fuel) ==
    IF fuel = 0 \/ T.l[n] = NIL THEN n ELSE DescendLeft(T, T.l[n], fuel - 1)

RECURSIVE DescendRight(_, _, _)
DescendRight(T, n, fuel) ==
    IF fuel = 0 \/ T.r[n] = NIL THEN n ELSE DescendRight(T, T.r[n], fuel - 1)

ph_first(T) == IF T.root = NIL THEN NIL ELSE DescendLeft(T, T.root, NumNodes)

ph_last(T) == IF T.root = NIL THEN NIL ELSE DescendRight(T, T.root, NumNodes)

\* while ((parent = ph_parent(node)) && node == parent->ph_right)
RECURSIVE ClimbFromRight(_, _, _)
ClimbFromRight(T, n, fuel) ==
    LET par == ph_parent(T, n) IN
    IF fuel # 0 /\ par # NIL /\ n = T.r[par]
    THEN ClimbFromRight(T, par, fuel - 1) ELSE par

RECURSIVE ClimbFromLeft(_, _, _)
ClimbFromLeft(T, n, fuel) ==
    LET par == ph_parent(T, n) IN
    IF fuel # 0 /\ par # NIL /\ n = T.l[par]
    THEN ClimbFromLeft(T, par, fuel - 1) ELSE par

\* ph_next returning the parent without climbing past right-child edges.
ph_next_NoClimb(T, node) ==
    IF PH_EMPTY_NODE(T, node) THEN NIL
    ELSE IF T.r[node] # NIL THEN DescendLeft(T, T.r[node], NumNodes)
    ELSE ph_parent(T, node)

ph_next(T, node) ==
    IF PH_EMPTY_NODE(T, node) THEN NIL
    ELSE IF T.r[node] # NIL THEN DescendLeft(T, T.r[node], NumNodes)
    ELSE ClimbFromRight(T, node, NumNodes)

\* ph_prev returning the parent without climbing past left-child edges.
ph_prev_NoClimb(T, node) ==
    IF PH_EMPTY_NODE(T, node) THEN NIL
    ELSE IF T.l[node] # NIL THEN DescendRight(T, T.l[node], NumNodes)
    ELSE ph_parent(T, node)

ph_prev(T, node) ==
    IF PH_EMPTY_NODE(T, node) THEN NIL
    ELSE IF T.l[node] # NIL THEN DescendRight(T, T.l[node], NumNodes)
    ELSE ClimbFromLeft(T, node, NumNodes)

RECURSIVE ph_left_deepest_node(_, _, _)
ph_left_deepest_node(T, node, fuel) ==
    IF fuel = 0 THEN node
    ELSE IF T.l[node] # NIL THEN ph_left_deepest_node(T, T.l[node], fuel - 1)
    ELSE IF T.r[node] # NIL THEN ph_left_deepest_node(T, T.r[node], fuel - 1)
    ELSE node

\* ph_next_postorder stepping to the right sibling itself.
ph_next_postorder_NoDescend(T, node) ==
    IF node = NIL THEN NIL
    ELSE LET par == ph_parent(T, node) IN
         IF par # NIL /\ node = T.l[par] /\ T.r[par] # NIL
         THEN T.r[par]
         ELSE par

ph_next_postorder(T, node) ==
    IF node = NIL THEN NIL
    ELSE LET par == ph_parent(T, node) IN
         IF par # NIL /\ node = T.l[par] /\ T.r[par] # NIL
         THEN ph_left_deepest_node(T, T.r[par], NumNodes)
         ELSE par

ph_first_postorder(T) ==
    IF T.root = NIL THEN NIL ELSE ph_left_deepest_node(T, T.root, NumNodes)

\* ------------------------------------------------------------- replacement
\* ph_replace_node that forgets to repoint the right child's parent.
ph_replace_node_SkipRight(T, victim, new) ==
    LET par == ph_parent(T, victim)
        T1 == [T EXCEPT !.l[new] = T.l[victim], !.r[new] = T.r[victim],
                        !.p[new] = T.p[victim], !.c[new] = T.c[victim]]
        T2 == IF T1.l[victim] # NIL THEN ph_set_parent(T1, T1.l[victim], new)
              ELSE T1
    IN __ph_change_child(T2, victim, new, par)

\* *new = *victim: the whole node structure is copied.
CopyNode(T, victim, new) ==
    [T EXCEPT !.l[new] = T.l[victim], !.r[new] = T.r[victim],
              !.p[new] = T.p[victim], !.c[new] = T.c[victim]]

ph_replace_node(T, victim, new) ==
    LET par == ph_parent(T, victim)
        T1 == CopyNode(T, victim, new)
        T2 == IF T1.l[victim] # NIL THEN ph_set_parent(T1, T1.l[victim], new)
              ELSE T1
        T3 == IF T2.r[victim] # NIL THEN ph_set_parent(T2, T2.r[victim], new)
              ELSE T2
    IN __ph_change_child(T3, victim, new, par)

\* ------------------------------------------------------------- the caller
\* The nodes reachable from the root by child links.
RECURSIVE ReachFrom(_, _)
ReachFrom(T, S) ==
    LET S2 == (S \cup {T.l[n] : n \in S} \cup {T.r[n] : n \in S}) \cap Nodes
    IN IF S2 = S THEN S ELSE ReachFrom(T, S2)

Linked(T) == IF T.root = NIL THEN {} ELSE ReachFrom(T, {T.root})

\* The caller's search core: descend by key to the absent slot for key k.
\* The result is <<parent, side>>.
RECURSIVE FindSlot(_, _, _, _)
FindSlot(T, k, n, fuel) ==
    LET next == IF k < n THEN T.l[n] ELSE T.r[n] IN
    IF next = NIL \/ fuel = 0 THEN <<n, IF k < n THEN "L" ELSE "R">>
    ELSE FindSlot(T, k, next, fuel - 1)

ph_link_node(T, node, par, side) ==
    LET T1 == [T EXCEPT !.l[node] = NIL, !.r[node] = NIL]
    IN IF par = NIL THEN [T1 EXCEPT !.root = node]
       ELSE IF side = "L" THEN [T1 EXCEPT !.l[par] = node]
       ELSE [T1 EXCEPT !.r[par] = node]

\* Link node k as a RED leaf at its BST slot.
LinkRedLeaf(T, k) ==
    LET slot == IF T.root = NIL THEN <<NIL, "L">>
                ELSE FindSlot(T, k, T.root, NumNodes)
    IN ph_set_parent_color(ph_link_node(T, k, slot[1], slot[2]),
                           k, slot[1], ph_RED)

\* The storage of a node that is not in the tree belongs to the caller, who
\* returns it to the state of a fresh ('empty') record before any reuse.
FreshNode(T, n) ==
    [T EXCEPT !.l[n] = NIL, !.r[n] = NIL, !.p[n] = n, !.c[n] = ph_RED,
              !.aug[n] = 0]

\* ----------------------------------------------------------------- actions
Install(T) ==
    /\ root' = T.root
    /\ ph_left' = T.l
    /\ ph_right' = T.r
    /\ parent' = T.p
    /\ color' = T.c
    /\ aug' = T.aug
    /\ events' = T.log

Init ==
    /\ root = NIL
    /\ ph_left = [n \in Nodes |-> NIL]
    /\ ph_right = [n \in Nodes |-> NIL]
    /\ parent = [n \in Nodes |-> n]
    /\ color = [n \in Nodes |-> ph_RED]
    /\ aug = [n \in Nodes |-> 0]
    /\ op = <<"init">>
    /\ events = <<>>
    /\ ascending = 0
    /\ phase = "build"
    /\ drained = 0
    /\ wstep = 0 /\ wvictim = NIL /\ wnew = NIL /\ wparent = NIL
    /\ replaced = 0
    /\ rpc = "first" /\ rcur = NIL /\ rpar = NIL /\ rfault = FALSE
    /\ rseen = [last |-> NIL, steps |-> {}]
    /\ pstep = 1 /\ ppos = NIL /\ pnext = NIL
    /\ visited = <<>> /\ invalid = {} /\ pfault = FALSE /\ pnodes = {}

\* ascending counts the inserts so far while they were exactly the keys
\* 1, 2, 3, ... in this order and nothing else happened; -1 afterwards.
Insert(k) ==
    /\ k \notin Linked(Cur)
    /\ Install(ph_insert_color(LinkRedLeaf(Cur, k), k))
    /\ op' = <<"insert", k>>
    /\ ascending' = IF ascending >= 0 /\ k = ascending + 1 THEN k ELSE -1
    /\ UNCHANGED <<phase, drained, rcuVars, walkVars>>

Erase(k) ==
    /\ k \in Linked(Cur)
    /\ Install(FreshNode(ph_erase(Cur, k), k))
    /\ op' = <<"erase", k>>
    /\ ascending' = -1
    /\ UNCHANGED <<phase, drained, rcuVars, walkVars>>

\* new carries a key that fits the slot victim occupies.
FitsSlot(T, victim, new) ==
    \A m \in Linked(T) \ {victim} : (m < victim) = (m < new)

Replace(victim, new) ==
    /\ victim \in Linked(Cur)
    /\ new \notin Linked(Cur)
    /\ FitsSlot(Cur, victim, new)
    /\ Install(FreshNode(ph_replace_node(Cur, victim, new), victim))
    /\ op' = <<"replace", victim, new>>
    /\ ascending' = -1
    /\ UNCHANGED <<phase, drained, rcuVars, walkVars>>

Next ==
    \/ \E k \in Keys : Insert(k)
    \/ \E k \in Keys : Erase(k)
    \/ \E v \in Keys, n \in Keys : Replace(v, n)

Spec == Init /\ [][Next]_vars

\* ----------------------------------------------------- the augmented tree
\* The caller of an augmented insert updates the aggregates along the
\* descent path (every ancestor gains one node) and sets the leaf's own.
RECURSIVE BumpAncestors(_, _, _)
BumpAncestors(T, n, fuel) ==
    IF n = NIL \/ fuel = 0 THEN T
    ELSE BumpAncestors([T EXCEPT !.aug[n] = T.aug[n] + 1], ph_parent(T, n),
                       fuel - 1)

LinkAugmented(T, k) ==
    LET T1 == LinkRedLeaf(T, k)
    IN BumpAncestors([T1 EXCEPT !.aug[k] = 1], ph_parent(T1, k), NumNodes)

InsertAugmented(k) ==
    /\ k \notin Linked(Cur)
    /\ Install(__ph_insert_augmented(LinkAugmented(Cur, k), k, "size_rotate"))
    /\ op' = <<"insert_augmented", k>>
    /\ UNCHANGED <<ascending, phase, drained, rcuVars, walkVars>>

EraseAugmented(k) ==
    /\ k \in Linked(Cur)
    /\ Install(FreshNode(ph_erase_augmented(Cur, k, "size_callbacks"), k))
    /\ op' = <<"erase_augmented", k>>
    /\ UNCHANGED <<ascending, phase, drained, rcuVars, walkVars>>

NextAug ==
    \/ \E k \in Keys : InsertAugmented(k)
    \/ \E k \in Keys : EraseAugmented(k)

SpecAug == Init /\ [][NextAug]_vars

\* ------------------------------------------- the erase-the-root scenario
\* Build a tree of DrainSize nodes by inserts in any order, then erase the
\* current root until the tree is empty.
Build(k) ==
    /\ phase = "build"
    /\ k \notin Linked(Cur)
    /\ Install(ph_insert_color(LinkRedLeaf(Cur, k), k))
    /\ op' = <<"insert", k>>
    /\ phase' = IF Cardinality(Linked(Cur)) + 1 = DrainSize THEN "drain"
                ELSE "build"
    /\ UNCHANGED <<ascending, drained, rcuVars, walkVars>>

DrainRoot ==
    /\ phase = "drain"
    /\ root # NIL
    /\ Install(FreshNode(ph_erase(Cur, root), root))
    /\ op' = <<"erase", root>>
    /\ drained' = drained + 1
    /\ UNCHANGED <<ascending, phase, rcuVars, walkVars>>

NextDrain ==
    \/ \E k \in 1..DrainSize : Build(k)
    \/ DrainRoot

SpecDrain == Init /\ [][NextDrain]_vars

\* ------------------------------------------ replacement under a reader
\* The statements of ph_replace_node_rcu after parent = ph_parent(victim),
\* in program order; the structure copy *new = *victim is one store per
\* member.
ph_replace_node_rcu_PublishFirst ==
    <<"publish", "copy_right", "copy_left", "copy_parent_color",
      "set_left_parent", "set_right_parent">>

\* ph_replace_node_rcu making new reachable through the children's parent
\* references before it is written.
ph_replace_node_rcu_ParentsBeforeCopy ==
    <<"set_left_parent", "set_right_parent", "copy_right", "copy_left",
      "copy_parent_color", "publish">>

ph_replace_node_rcu ==
    <<"copy_right", "copy_left", "copy_parent_color",
      "set_left_parent", "set_right_parent", "publish">>

\* The publishing store: the parent's child slot, or the root.
__ph_change_child_rcu(T, old, new, par) == __ph_change_child(T, old, new, par)

EmptyTree ==
    [root |-> NIL, l |-> [n \in Nodes |-> NIL], r |-> [n \in Nodes |-> NIL],
     p |-> [n \in Nodes |-> n], c |-> [n \in Nodes |-> ph_RED],
     aug |-> [n \in Nodes |-> 0], fault |-> FALSE, log |-> <<>>]

\* The tree that inserting the keys of seq, in order, builds.
RECURSIVE BuildTree(_, _)
BuildTree(seq, i) ==
    IF i = 0 THEN EmptyTree
    ELSE LET T == BuildTree(seq, i - 1)
         IN ph_insert_color(LinkRedLeaf(T, seq[i]), seq[i])

\* Storage the caller has allocated and not yet written.
Uninitialised(T, S) ==
    [T EXCEPT !.l = [n \in Nodes |-> IF n \in S THEN POISON ELSE T.l[n]],
              !.r = [n \in Nodes |-> IF n \in S THEN POISON ELSE T.r[n]],
              !.p = [n \in Nodes |-> IF n \in S THEN POISON ELSE T.p[n]],
              !.c = [n \in Nodes |-> IF n \in S THEN POISON ELSE T.c[n]]]

\* Every order in which the tree's keys can have been inserted.
RcuOrders ==
    {f \in [1..Cardinality(RcuKeys) -> RcuKeys] :
        \A i, j \in 1..Cardinality(RcuKeys) : f[i] = f[j] => i = j}

InitRcu ==
    /\ \E seq \in RcuOrders :
          LET T == BuildTree(seq, Cardinality(RcuKeys))
              T0 == Uninitialised(T, Nodes \ RcuKeys)
          IN /\ root = T0.root
             /\ ph_left = T0.l
             /\ ph_right = T0.r
             /\ parent = T0.p
             /\ color = T0.c
             /\ aug = T0.aug
    /\ op = <<"init">>
    /\ events = <<>>
    /\ ascending = -1
    /\ phase = "build"
    /\ drained = 0
    /\ wstep = 0 /\ wvictim = NIL /\ wnew = NIL /\ wparent = NIL
    /\ replaced = 0
    /\ rpc = "first" /\ rcur = NIL /\ rpar = NIL /\ rfault = FALSE
    /\ rseen = [last |-> NIL, steps |-> {}]
    /\ pstep = 1 /\ ppos = NIL /\ pnext = NIL
    /\ visited = <<>> /\ invalid = {} /\ pfault = FALSE /\ pnodes = {}

IsFresh(n) ==
    /\ ph_left[n] = POISON
    /\ ph_right[n] = POISON
    /\ parent[n] = POISON
    /\ color[n] = POISON

notTree == <<aug, op, events, ascending, phase, drained, walkVars, rseen>>

readerVars == <<rpc, rcur, rpar, rfault>>

writerVars == <<wstep, wvictim, wnew, wparent, replaced>>

\* ph_replace_node_rcu is entered: parent = ph_parent(victim).
RcuBegin(victim, new) ==
    /\ wstep = 0
    /\ replaced < MaxReplace
    /\ victim \in Linked(Cur)
    /\ IsFresh(new)
    /\ FitsSlot(Cur, victim, new)
    /\ wstep' = 1
    /\ wvictim' = victim
    /\ wnew' = new
    /\ wparent' = ph_parent(Cur, victim)
    /\ UNCHANGED <<treeVars, replaced, readerVars, notTree>>

\* The effect of one statement of ph_replace_node_rcu on the shared tree.
RcuStatement(T, kind, victim, new, par) ==
    CASE kind = "copy_right" -> [T EXCEPT !.r[new] = T.r[victim]]
      [] kind = "copy_left" -> [T EXCEPT !.l[new] = T.l[victim]]
      [] kind = "copy_parent_color" ->
            [T EXCEPT !.p[new] = T.p[victim], !.c[new] = T.c[victim]]
      [] kind = "set_left_parent" ->
            IF T.l[victim] # NIL THEN ph_set_parent(T, T.l[victim], new) ELSE T
      [] kind = "set_right_parent" ->
            IF T.r[victim] # NIL THEN ph_set_parent(T, T.r[victim], new) ELSE T
      [] kind = "publish" -> __ph_change_child_rcu(T, victim, new, par)

RcuWrite ==
    /\ wstep # 0
    /\ LET T == RcuStatement(Cur, ph_replace_node_rcu[wstep], wvictim, wnew,
                             wparent)
       IN /\ root' = T.root
          /\ ph_left' = T.l
          /\ ph_right' = T.r
          /\ parent' = T.p
          /\ color' = T.c
    /\ IF wstep = Len(ph_replace_node_rcu)
       THEN /\ wstep' = 0
            /\ replaced' = replaced + 1
            /\ wvictim' = NIL /\ wnew' = NIL /\ wparent' = NIL
       ELSE /\ wstep' = wstep + 1
            /\ UNCHANGED <<replaced, wvictim, wnew, wparent>>
    /\ UNCHANGED <<readerVars, notTree>>

\* The reader has read an uninitialised field: it stops where it is.
ReaderFaults ==
    /\ rfault' = TRUE
    /\ UNCHANGED <<rpc, rcur, rpar>>

\* ph_first: n = root->ph_node.
ReaderFirst ==
    /\ rpc = "first"
    /\ ~rfault
    /\ root # NIL
    /\ rcur' = root
    /\ rpc' = "descend"
    /\ UNCHANGED <<rpar, rfault, treeVars, writerVars, notTree>>

\* while (n->ph_left) n = n->ph_left, in ph_first and in ph_next.
ReaderDescend ==
    /\ rpc = "descend"
    /\ ~rfault
    /\ IF ph_left[rcur] = POISON THEN ReaderFaults
       ELSE /\ IF ph_left[rcur] # NIL
               THEN rcur' = ph_left[rcur] /\ rpc' = "descend"
               ELSE rcur' = rcur /\ rpc' = "next"
            /\ UNCHANGED <<rpar, rfault>>
    /\ UNCHANGED <<treeVars, writerVars, notTree>>

\* ph_next(node): the empty test and if (node->ph_right).
ReaderNext ==
    /\ rpc = "next"
    /\ ~rfault
    /\ IF ph_right[rcur] = POISON \/ parent[rcur] = POISON THEN ReaderFaults
       ELSE /\ IF PH_EMPTY_NODE(Cur, rcur)
               THEN rcur' = NIL /\ rpc' = "first"
               ELSE IF ph_right[rcur] # NIL
               THEN rcur' = ph_right[rcur] /\ rpc' = "descend"
               ELSE rcur' = rcur /\ rpc' = "climb"
            /\ UNCHANGED <<rpar, rfault>>
    /\ UNCHANGED <<treeVars, writerVars, notTree>>

\* parent = ph_parent(node); no parent ends the walk and the next begins.
ReaderClimb ==
    /\ rpc = "climb"
    /\ ~rfault
    /\ IF parent[rcur] = POISON THEN ReaderFaults
       ELSE /\ IF parent[rcur] = NIL
               THEN rcur' = NIL /\ rpar' = NIL /\ rpc' = "first"
               ELSE rcur' = rcur /\ rpar' = parent[rcur] /\ rpc' = "compare"
            /\ UNCHANGED rfault
    /\ UNCHANGED <<treeVars, writerVars, notTree>>

\* node == parent->ph_right: keep climbing, else parent is the next node.
ReaderCompare ==
    /\ rpc = "compare"
    /\ ~rfault
    /\ IF ph_right[rpar] = POISON THEN ReaderFaults
       ELSE /\ rcur' = rpar
            /\ rpar' = NIL
            /\ rpc' = IF rcur = ph_right[rpar] THEN "climb" ELSE "next"
            /\ UNCHANGED rfault
    /\ UNCHANGED <<treeVars, writerVars, notTree>>

NextRcu ==
    \/ \E v \in Nodes, n \in Nodes : RcuBegin(v, n)
    \/ RcuWrite
    \/ ReaderFirst
    \/ ReaderDescend
    \/ ReaderNext
    \/ ReaderClimb
    \/ ReaderCompare

SpecRcu == InitRcu /\ [][NextRcu]_vars

\* ------------------------------------- one replacement under one walk
onceFrame == <<aug, op, events, ascending, phase, drained, walkVars>>

\* The single call of ph_replace_node_rcu is entered.
OnceBegin(victim, new) ==
    /\ wstep = 0
    /\ replaced = 0
    /\ victim \in Linked(Cur)
    /\ IsFresh(new)
    /\ FitsSlot(Cur, victim, new)
    /\ wstep' = 1
    /\ wvictim' = victim
    /\ wnew' = new
    /\ wparent' = ph_parent(Cur, victim)
    /\ UNCHANGED <<treeVars, replaced, readerVars, rseen, onceFrame>>

\* Its next statement; victim, new and parent stay known when it returns.
OnceWrite ==
    /\ wstep # 0
    /\ LET T == RcuStatement(Cur, ph_replace_node_rcu[wstep], wvictim, wnew,
                             wparent)
       IN /\ root' = T.root
          /\ ph_left' = T.l
          /\ ph_right' = T.r
          /\ parent' = T.p
          /\ color' = T.c
    /\ IF wstep = Len(ph_replace_node_rcu)
       THEN wstep' = 0 /\ replaced' = replaced + 1
       ELSE wstep' = wstep + 1 /\ replaced' = replaced
    /\ UNCHANGED <<wvictim, wnew, wparent, readerVars, rseen, onceFrame>>

\* ph_first or ph_next returns node n to the walker.
Returned(n) ==
    [last |-> n,
     steps |-> IF rseen.last = NIL THEN rseen.steps
               ELSE rseen.steps \cup {<<rseen.last, n>>}]

\* The walker read an uninitialised field: it stops where it is.
WalkerFaults ==
    /\ rfault' = TRUE
    /\ UNCHANGED <<rpc, rcur, rpar, rseen>>

\* for (n = ph_first(root); n; n = ph_next(n)), one load per step.
\* ph_first: n = root->ph_node.
WalkerFirst ==
    /\ rpc = "first"
    /\ ~rfault
    /\ IF root = NIL THEN rcur' = NIL /\ rpc' = "done"
       ELSE rcur' = root /\ rpc' = "descend"
    /\ UNCHANGED <<rpar, rfault, rseen, treeVars, writerVars, onceFrame>>

\* while (n->ph_left) n = n->ph_left; then ph_first / ph_next returns n.
WalkerDescend ==
    /\ rpc = "descend"
    /\ ~rfault
    /\ IF ph_left[rcur] = POISON THEN WalkerFaults
       ELSE /\ IF ph_left[rcur] # NIL
               THEN rcur' = ph_left[rcur] /\ rpc' = "descend" /\ rseen' = rseen
               ELSE /\ rcur' = rcur
                    /\ rpc' = "next"
                    /\ rseen' = Returned(rcur)
            /\ UNCHANGED <<rpar, rfault>>
    /\ UNCHANGED <<treeVars, writerVars, onceFrame>>

\* ph_next(node): the empty test and if (node->ph_right).
WalkerNext ==
    /\ rpc = "next"
    /\ ~rfault
    /\ IF ph_right[rcur] = POISON \/ parent[rcur] = POISON THEN WalkerFaults
       ELSE /\ IF PH_EMPTY_NODE(Cur, rcur)
               THEN rcur' = NIL /\ rpc' = "done"
               ELSE IF ph_right[rcur] # NIL
               THEN rcur' = ph_right[rcur] /\ rpc' = "descend"
               ELSE rcur' = rcur /\ rpc' = "climb"
            /\ UNCHANGED <<rpar, rfault, rseen>>
    /\ UNCHANGED <<treeVars, writerVars, onceFrame>>

\* parent = ph_parent(node); no parent: ph_next returns NULL, the walk ends.
WalkerClimb ==
    /\ rpc = "climb"
    /\ ~rfault
    /\ IF parent[rcur] = POISON THEN WalkerFaults
       ELSE /\ IF parent[rcur] = NIL
               THEN rcur' = NIL /\ rpar' = NIL /\ rpc' = "done"
               ELSE rcur' = rcur /\ rpar' = parent[rcur] /\ rpc' = "compare"
            /\ UNCHANGED <<rfault, rseen>>
    /\ UNCHANGED <<treeVars, writerVars, onceFrame>>

\* node == parent->ph_right: keep climbing, else ph_next returns parent.
WalkerCompare ==
    /\ rpc = "compare"
    /\ ~rfault
    /\ IF ph_right[rpar] = POISON THEN WalkerFaults
       ELSE /\ rcur' = rpar
            /\ rpar' = NIL
            /\ IF rcur = ph_right[rpar]
               THEN rpc' = "climb" /\ rseen' = rseen
               ELSE rpc' = "next" /\ rseen' = Returned(rpar)
            /\ UNCHANGED rfault
    /\ UNCHANGED <<treeVars, writerVars, onceFrame>>

WalkerStep ==
    \/ WalkerFirst
    \/ WalkerDescend
    \/ WalkerNext
    \/ WalkerClimb
    \/ WalkerCompare

NextRcuOnce ==
    \/ \E v \in Nodes, n \in Nodes : OnceBegin(v, n)
    \/ OnceWrite
    \/ WalkerFirst
    \/ WalkerDescend
    \/ WalkerNext
    \/ WalkerClimb
    \/ WalkerCompare

\* Writer and reader are threads that keep being scheduled: a call of
\* ph_replace_node_rcu that was entered runs to its end, and the walk goes on.
SpecRcuOnce ==
    /\ InitRcu
    /\ [][NextRcuOnce]_vars
    /\ WF_vars(OnceWrite)
    /\ WF_vars(WalkerStep)

\* ------------------------------------------- destruction during postorder
\* One round of phtree_postorder_for_each_entry_safe while pos is not NULL:
\* the loop condition fetches n = ph_next_postorder(pos), the body runs, the
\* loop step assigns pos = n.
phtree_postorder_for_each_entry_BodyFirst == <<"body", "fetch_next", "advance">>

phtree_postorder_for_each_entry_safe == <<"fetch_next", "body", "advance">>

\* The nodes ph_left_deepest_node(node) reads a field of.
RECURSIVE LeftDeepestReads(_, _, _)
LeftDeepestReads(T, node, fuel) ==
    IF fuel = 0 \/ node \notin Nodes THEN {}
    ELSE {node} \cup
         (IF T.l[node] # NIL THEN LeftDeepestReads(T, T.l[node], fuel - 1)
          ELSE IF T.r[node] # NIL THEN LeftDeepestReads(T, T.r[node], fuel - 1)
          ELSE {})

\* The nodes ph_next_postorder(node) reads a field of: node (its parent
\* word), the parent (both child links) and the descent into the parent's
\* right subtree.
NextPostorderReads(T, node) ==
    IF node \notin Nodes THEN {}
    ELSE LET par == T.p[node] IN
         {node} \cup
         (IF par \notin Nodes THEN {}
          ELSE {par} \cup
               (IF node = T.l[par] /\ T.r[par] # NIL
                THEN LeftDeepestReads(T, T.r[par], NumNodes)
                ELSE {}))

\* The loop body destroys pos: its links and parent word are overwritten.
Invalidate(T, n) ==
    [T EXCEPT !.l[n] = POISON, !.r[n] = POISON, !.p[n] = POISON,
              !.c[n] = POISON]

\* The tree to destroy is built by inserts and erases.
Grow(k) ==
    /\ phase = "build"
    /\ Insert(k)

Shrink(k) ==
    /\ phase = "build"
    /\ Erase(k)

\* The for statement's initialisation: pos = ph_first_postorder(root).
WalkBegin ==
    /\ phase = "build"
    /\ phase' = "walk"
    /\ ppos' = ph_first_postorder(Cur)
    /\ pnodes' = Linked(Cur)
    /\ pstep' = 1
    /\ UNCHANGED <<treeVars, op, events, ascending, drained, rcuVars, pnext,
                   visited, invalid, pfault>>

WalkFetchNext ==
    /\ phtree_postorder_for_each_entry_safe[pstep] = "fetch_next"
    /\ IF NextPostorderReads(Cur, ppos) \cap invalid # {} \/ ppos \in invalid
       THEN pfault' = TRUE /\ pnext' = NIL
       ELSE pfault' = pfault /\ pnext' = ph_next_postorder(Cur, ppos)
    /\ UNCHANGED <<treeVars, ppos, visited, invalid>>

WalkBody ==
    /\ phtree_postorder_for_each_entry_safe[pstep] = "body"
    /\ visited' = Append(visited, ppos)
    /\ invalid' = invalid \cup {ppos}
    /\ LET T == Invalidate(Cur, ppos)
       IN /\ ph_left' = T.l
          /\ ph_right' = T.r
          /\ parent' = T.p
          /\ color' = T.c
    /\ UNCHANGED <<root, aug, ppos, pnext, pfault>>

WalkAdvance ==
    /\ phtree_postorder_for_each_entry_safe[pstep] = "advance"
    /\ ppos' = pnext
    /\ UNCHANGED <<treeVars, pnext, visited, invalid, pfault>>

WalkStep ==
    /\ phase = "walk"
    /\ ppos # NIL
    /\ ~pfault
    /\ \/ WalkFetchNext
       \/ WalkBody
       \/ WalkAdvance
    /\ pstep' = (pstep % Len(phtree_postorder_for_each_entry_safe)) + 1
    /\ UNCHANGED <<op, events, ascending, phase, drained, rcuVars, pnodes>>

NextWalk ==
    \/ \E k \in 1..WalkKeys : Grow(k)
    \/ \E k \in 1..WalkKeys : Shrink(k)
    \/ WalkBegin
    \/ WalkStep

SpecWalk == Init /\ [][NextWalk]_vars

\* ------------------------------------------------------------- observations
\* Black nodes on the leftmost path below n (n included).
RECURSIVE BlackHeight(_, _, _)
BlackHeight(T, n, fuel) ==
    IF n = NIL \/ fuel = 0 THEN 0
    ELSE (IF ph_is_black(T, n) THEN 1 ELSE 0) + BlackHeight(T, T.l[n], fuel - 1)

\* -1 when two paths below n differ in their black count.
RECURSIVE BlackCount(_, _, _)
BlackCount(T, n, fuel) ==
    IF n = NIL THEN 0
    ELSE IF fuel = 0 THEN -1
    ELSE LET a == BlackCount(T, T.l[n], fuel - 1)
             b == BlackCount(T, T.r[n], fuel - 1)
         IN IF a = -1 \/ b = -1 \/ a # b THEN -1
            ELSE a + (IF ph_is_black(T, n) THEN 1 ELSE 0)

RootBlack(T) == T.root # NIL => ph_is_black(T, T.root)

NoRedRed(T) ==
    \A n \in Linked(T) :
        ph_is_red(T, n) =>
            /\ T.l[n] # NIL => ph_is_black(T, T.l[n])
            /\ T.r[n] # NIL => ph_is_black(T, T.r[n])

BlackBalanced(T) == BlackCount(T, T.root, NumNodes + 1) # -1

RedBlack(T) == RootBlack(T) /\ NoRedRed(T) /\ BlackBalanced(T)

\* The ascending sequence of a finite set of keys.
RECURSIVE SortedSeq(_)
SortedSeq(S) ==
    IF S = {} THEN <<>>
    ELSE LET m == CHOOSE x \in S : \A y \in S : x <= y
         IN <<m>> \o SortedSeq(S \ {m})

Reverse(s) == [i \in 1..Len(s) |-> s[Len(s) + 1 - i]]

SeqSet(s) == {s[i] : i \in 1..Len(s)}

\* for (n = ph_first(root); n; n = ph_next(n)): the nodes in visiting order.
\* A walk longer than the number of nodes is cut after NumNodes + 1 visits.
RECURSIVE WalkNext(_, _, _)
WalkNext(T, n, fuel) ==
    IF n = NIL \/ fuel = 0 THEN <<>>
    ELSE <<n>> \o WalkNext(T, ph_next(T, n), fuel - 1)

InOrder(T) == WalkNext(T, ph_first(T), NumNodes + 1)

RECURSIVE WalkPrev(_, _, _)
WalkPrev(T, n, fuel) ==
    IF n = NIL \/ fuel = 0 THEN <<>>
    ELSE <<n>> \o WalkPrev(T, ph_prev(T, n), fuel - 1)

ReverseOrder(T) == WalkPrev(T, ph_last(T), NumNodes + 1)

RECURSIVE WalkPostorder(_, _, _)
WalkPostorder(T, n, fuel) ==
    IF n = NIL \/ fuel = 0 THEN <<>>
    ELSE <<n>> \o WalkPostorder(T, ph_next_postorder(T, n), fuel - 1)

PostOrder(T) == WalkPostorder(T, ph_first_postorder(T), NumNodes + 1)

\* ------------------------------------------------------------------ claims
\* C1: after any sequence of valid inserts and erases the root is BLACK, no
\* RED node has a RED child, and all root-to-absent-child paths carry the
\* same number of BLACK nodes.
C1_RedBlackInvariants == RedBlack(Cur)

\* C1 witness: an erase has just rebalanced a tree that still holds a RED
\* node below a BLACK root.
C1_Witness ==
    /\ op[1] = "erase"
    /\ Cardinality(Linked(Cur)) >= 5
    /\ \E n \in Linked(Cur) : ph_is_red(Cur, n)

\* C2: ph_next from ph_first enumerates every linked node exactly once in
\* ascending key order, and ph_prev from ph_last enumerates the reverse.
C2_InOrderEnumeration ==
    /\ InOrder(Cur) = SortedSeq(Linked(Cur))
    /\ ReverseOrder(Cur) = Reverse(InOrder(Cur))

\* C2 witness: a walk over a tree of at least five nodes, built with erases,
\* in which ph_next both descends (root has a right subtree with a left
\* child) and climbs.
C2_Witness ==
    /\ op[1] = "erase"
    /\ Len(InOrder(Cur)) >= 5
    /\ root # NIL /\ ph_right[root] # NIL /\ ph_left[ph_right[root]] # NIL

\* C3: the postorder walk visits every linked node exactly once and every
\* node strictly before its parent (so the root comes last).
C3_PostorderChildrenFirst ==
    LET po == PostOrder(Cur) IN
    /\ Len(po) = Cardinality(Linked(Cur))
    /\ SeqSet(po) = Linked(Cur)
    /\ \A i \in 1..Len(po) :
          parent[po[i]] # NIL =>
              \E j \in (i + 1)..Len(po) : po[j] = parent[po[i]]
    /\ root # NIL => po[Len(po)] = root

\* C3 witness: a postorder walk over a tree where some node has two
\* children and some node has only a right child.
C3_Witness ==
    /\ Len(PostOrder(Cur)) >= 5
    /\ \E n \in Linked(Cur) : ph_left[n] = NIL /\ ph_right[n] # NIL
    /\ \E n \in Linked(Cur) : ph_left[n] # NIL /\ ph_right[n] # NIL

\* The reference x after victim's slot was handed to new.
Renamed(x, victim, new) == IF x = victim THEN new ELSE x

\* C4: ph_replace_node puts new into victim's slot: new has victim's parent,
\* colour and children, the children and the parent's slot (or the root)
\* point to new, no other node changes, the in-order sequence is the old one
\* with new in victim's place, and the red-black invariants still hold.
C4_ReplaceKeepsShape ==
    [][op'[1] = "replace" =>
         LET victim == op'[2]
             new == op'[3]
             before == InOrder(Cur)
         IN /\ parent'[new] = parent[victim]
            /\ color'[new] = color[victim]
            /\ ph_left'[new] = ph_left[victim]
            /\ ph_right'[new] = ph_right[victim]
            /\ ph_left[victim] # NIL => parent'[ph_left[victim]] = new
            /\ ph_right[victim] # NIL => parent'[ph_right[victim]] = new
            /\ IF parent[victim] = NIL THEN root' = new
               ELSE /\ root' = root
                    /\ ph_left[parent[victim]] = victim
                          => ph_left'[parent[victim]] = new
                    /\ ph_right[parent[victim]] = victim
                          => ph_right'[parent[victim]] = new
            /\ \A m \in Nodes \ {victim, new} :
                  /\ color'[m] = color[m]
                  /\ ph_left'[m] = Renamed(ph_left[m], victim, new)
                  /\ ph_right'[m] = Renamed(ph_right[m], victim, new)
                  /\ parent'[m] = Renamed(parent[m], victim, new)
            /\ InOrder(CurNext) =
                  [i \in 1..Len(before) |-> Renamed(before[i], victim, new)]
            /\ RedBlack(CurNext)
    ]_vars

\* C4 witness: a replace has put a new node into the slot of a victim that
\* had a parent and two children.
C4_Witness ==
    /\ op[1] = "replace"
    /\ parent[op[3]] # NIL
    /\ ph_left[op[3]] # NIL
    /\ ph_right[op[3]] # NIL

\* C7: inserting 1..7 in ascending order keeps the black-height invariant
\* after every insert and ends in the tree 2B(1B, 4R(3B, 6B(5R, 7R))).
C7_AscendingInsertShape ==
    /\ ascending >= 0 => BlackBalanced(Cur)
    /\ ascending = 7 =>
          /\ root = 2
          /\ color[2] = ph_BLACK /\ ph_left[2] = 1 /\ ph_right[2] = 4
          /\ color[1] = ph_BLACK /\ ph_left[1] = NIL /\ ph_right[1] = NIL
          /\ color[4] = ph_RED /\ ph_left[4] = 3 /\ ph_right[4] = 6
          /\ color[3] = ph_BLACK /\ ph_left[3] = NIL /\ ph_right[3] = NIL
          /\ color[6] = ph_BLACK /\ ph_left[6] = 5 /\ ph_right[6] = 7
          /\ color[5] = ph_RED /\ ph_left[5] = NIL /\ ph_right[5] = NIL
          /\ color[7] = ph_RED /\ ph_left[7] = NIL /\ ph_right[7] = NIL

\* C7 witness: the seventh ascending insert has completed, key 7 having
\* been linked as the right child of the maximum.
C7_Witness ==
    /\ ascending = 7
    /\ op = <<"insert", 7>>
    /\ Linked(Cur) = 1..7

Rotations(ev) == {i \in 1..Len(ev) : ev[i][1] = "rotate"}

\* C6: in an augmented tree whose caller updates the descent path and
\* supplies the subtree-size callbacks, after every completed insert or
\* erase each linked node's cached aggregate equals its own contribution
\* combined with its children's current aggregates.
C6_AggregatesConsistent ==
    \A n \in Linked(Cur) : aug[n] = size_compute(Cur, n)

\* C6 witness: an augmented insert that rotated twice (Case 2, then Case 3)
\* in a tree of at least five nodes.
C6_Witness ==
    /\ op[1] = "insert_augmented"
    /\ Cardinality(Rotations(events)) = 2
    /\ Cardinality(Linked(Cur)) >= 5
    /\ aug[root] = Cardinality(Linked(Cur))

\* C8: while the root of a DrainSize-node tree is erased again and again,
\* after each erase the erased node is unreachable, the node count is one
\* less, the red-black invariants hold and ph_first/ph_next enumerate the
\* remaining keys in ascending order; after the last erase the root is empty.
C8_DrainRoot ==
    [][phase = "drain" =>
         LET erased == root
             rest == Linked(Cur) \ {erased}
         IN /\ erased \notin Linked(CurNext)
            /\ Cardinality(Linked(CurNext)) = Cardinality(Linked(Cur)) - 1
            /\ RedBlack(CurNext)
            /\ InOrder(CurNext) = SortedSeq(rest)
            /\ (drained' = DrainSize) = (root' = NIL)
    ]_vars

\* C8 witness: the last of DrainSize erases of the root has emptied the tree.
C8_Witness ==
    /\ phase = "drain"
    /\ drained = DrainSize
    /\ root = NIL

SameStructure(A, B) ==
    /\ A.root = B.root
    /\ A.l = B.l
    /\ A.r = B.r
    /\ A.p = B.p
    /\ A.c = B.c

\* C10: every augmented insert or erase (callbacks that touch aggregates
\* only) leaves the links, colours and root that the non-augmented entry
\* points ph_insert_color / ph_erase produce from the same tree.
C10_CallbacksDoNotSteer ==
    [][/\ op'[1] = "insert_augmented" =>
            SameStructure(ph_insert_color(LinkRedLeaf(Cur, op'[2]), op'[2]),
                          CurNext)
       /\ op'[1] = "erase_augmented" =>
            SameStructure(FreshNode(ph_erase(Cur, op'[2]), op'[2]), CurNext)
    ]_vars

\* C10 witness: an augmented erase whose rebalancing rotated, so that the
\* rotate callback rewrote aggregates.
C10_Witness ==
    /\ op[1] = "erase_augmented"
    /\ Rotations(events) # {}
    /\ Cardinality(Linked(Cur)) >= 4

Initialised(n) ==
    /\ ph_left[n] # POISON
    /\ ph_right[n] # POISON
    /\ parent[n] # POISON
    /\ color[n] # POISON

\* C5: ph_replace_node_rcu publishes new (parent's slot or root) as its last
\* store, after all of new's fields are written; so a reader walking by
\* ph_first / ph_next at any interleaving never reads an uninitialised
\* field, and every node reachable from the root, and every node the reader
\* holds, is fully initialised.
C5_ReaderSeesInitialisedNodes ==
    /\ ~rfault
    /\ \A n \in Linked(Cur) : Initialised(n)
    /\ rcur # NIL => Initialised(rcur)
    /\ rpar # NIL => Initialised(rpar)
    /\ wstep # 0 => wnew \notin Linked(Cur)

\* C5 witness: the reader stands on a node that an earlier replacement
\* published, while a second replacement has copied and not yet published.
C5_Witness ==
    /\ replaced >= 1
    /\ rcur \in Nodes \ RcuKeys
    /\ rcur \in Linked(Cur)
    /\ rpc = "next"
    /\ wstep > 3

NoDuplicates(s) == \A i, j \in 1..Len(s) : s[i] = s[j] => i = j

\* C9: the safe postorder loop, whose body invalidates the current node,
\* never reads a field of an invalidated node, hands no node to the body
\* twice, and has handed every node of the tree to it when it ends.
C9_SafePostorderDestruction ==
    /\ ~pfault
    /\ NoDuplicates(visited)
    /\ SeqSet(visited) \subseteq pnodes
    /\ (phase = "walk" /\ ppos = NIL) => SeqSet(visited) = pnodes

\* C9 witness: a loop over at least four nodes has ended with all of them
\* invalidated.
C9_Witness ==
    /\ phase = "walk"
    /\ ppos = NIL
    /\ Len(visited) >= 4
    /\ invalid = pnodes

Smallest(S) == CHOOSE x \in S : \A y \in S : x <= y

\* C11: absence is the no-node result: ph_first, ph_last and
\* ph_first_postorder of an empty root, ph_next of the maximum node, ph_prev
\* of the minimum node, ph_next_postorder of the root and of no-node all
\* return no-node.
C11_AbsenceIsNoNode ==
    /\ ph_next_postorder(Cur, NIL) = NIL
    /\ root = NIL =>
          /\ ph_first(Cur) = NIL
          /\ ph_last(Cur) = NIL
          /\ ph_first_postorder(Cur) = NIL
    /\ root # NIL =>
          /\ ph_next(Cur, Largest(Linked(Cur))) = NIL
          /\ ph_prev(Cur, Smallest(Linked(Cur))) = NIL
          /\ ph_next_postorder(Cur, root) = NIL

\* C11 witness: a tree of at least four nodes, reached by an erase, whose
\* minimum and maximum are both below the root, so that ph_next and ph_prev
\* climb to the root's absent parent.
C11_Witness ==
    /\ op[1] = "erase"
    /\ Cardinality(Linked(Cur)) >= 4
    /\ Largest(Linked(Cur)) # root
    /\ Smallest(Linked(Cur)) # root
    /\ parent[Smallest(Linked(Cur))] # root

\* The slot the caller's search core finds for key k: <<parent, side>>.
InsertSlot(T, k) ==
    IF T.root = NIL THEN <<NIL, "L">> ELSE FindSlot(T, k, T.root, NumNodes)

\* C12: ph_link_node(node, parent, link) leaves node with both child links
\* empty, coloured RED, with its parent reference equal to the given parent,
\* and with the given slot pointing at node - the precondition of insert
\* fixup.
C12_LinkEstablishesFixupPrecondition ==
    \A k \in Keys \ Linked(Cur) :
        LET slot == InsertSlot(Cur, k)
            T1 == ph_link_node(Cur, k, slot[1], slot[2])
        IN /\ T1.l[k] = NIL
           /\ T1.r[k] = NIL
           /\ ph_is_red(T1, k)
           /\ ph_parent(T1, k) = slot[1]
           /\ IF slot[1] = NIL THEN T1.root = k
              ELSE IF slot[2] = "L" THEN T1.l[slot[1]] = k
              ELSE T1.r[slot[1]] = k

\* Nodes on the path from n up to the root, n included.
RECURSIVE Depth(_, _, _)
Depth(T, n, fuel) ==
    IF n = NIL \/ fuel = 0 THEN 0 ELSE 1 + Depth(T, T.p[n], fuel - 1)

\* Nodes on the longest path from n down, n included.
RECURSIVE Height(_, _, _)
Height(T, n, fuel) ==
    IF n = NIL \/ fuel = 0 THEN 0
    ELSE LET a == Height(T, T.l[n], fuel - 1)
             b == Height(T, T.r[n], fuel - 1)
         IN 1 + (IF a >= b THEN a ELSE b)

CeilHalf(h) == (h + 1) \div 2

Tagged(ev, tag) == SelectSeq(ev, LAMBDA e : e[1] = tag)

\* The current node of each iteration of the fixup whose log is ev, for the
\* linked leaf x: x, then the node each Case 1 step assigned.
CurrentNodes(ev, x) ==
    LET c1 == Tagged(ev, "case1")
    IN <<x>> \o [i \in 1..Len(c1) |-> c1[i][2]]

\* C13: insert fixup of a RED leaf linked into a red-black tree terminates:
\* every Case 1 step moves the current node two levels up, no Case 1 step
\* follows a rotation, and the loop runs at most ceil(height/2) + 1 times,
\* the height being that of the tree with the leaf linked.
C13_FixupTerminates ==
    [][op'[1] = "insert" =>
         \A T1 \in {LinkRedLeaf(Cur, op'[2])},
            cur \in {CurrentNodes(events', op'[2])} :
            /\ Tagged(events', "fault") = <<>>
            /\ Len(cur) <= CeilHalf(Height(T1, T1.root, NumNodes + 1)) + 1
            /\ \A i \in 1..(Len(cur) - 1) :
                  Depth(T1, cur[i + 1], NumNodes + 1)
                      = Depth(T1, cur[i], NumNodes + 1) - 2
            /\ \A i, j \in 1..Len(events') :
                  (events'[i][1] = "rotate" /\ i < j)
                      => events'[j][1] = "rotate"
    ]_vars

\* C13 witness: an insert whose fixup took two Case 1 steps.
C13_Witness ==
    /\ op[1] = "insert"
    /\ Len(Tagged(events, "case1")) = 2

\* C14: whenever insert fixup finds the current node's parent RED, the
\* grandparent exists and is BLACK, so the reads of the grandparent's child
\* links dereference a node.
C14_RedParentHasBlackGrandparent ==
    \A i \in 1..Len(events) :
        events[i][1] = "red_parent" => (events[i][3] # NIL /\ events[i][4])

\* C14 witness: a fixup that found a RED parent again after a Case 1 step.
C14_Witness ==
    /\ op[1] = "insert"
    /\ Len(Tagged(events, "red_parent")) = 2
    /\ Len(Tagged(events, "case1")) >= 1

\* C15: insert fixup changes neither the set of linked nodes nor their
\* in-order sequence: after ph_insert_color both are what they were right
\* after the leaf was linked, and the sequence is ascending.
C15_FixupKeepsOrder ==
    [][op'[1] = "insert" =>
         \A T1 \in {LinkRedLeaf(Cur, op'[2])}, T2 \in {CurNext} :
            /\ Linked(T2) = Linked(T1)
            /\ InOrder(T2) = InOrder(T1)
            /\ InOrder(T2) = SortedSeq(Linked(Cur) \cup {op'[2]})
    ]_vars

\* C15 witness: a fixup that rotated twice after a Case 1 step, so that the
\* rotations moved non-empty subtrees.
C15_Witness ==
    /\ op[1] = "insert"
    /\ Len(Tagged(events, "case1")) >= 1
    /\ Len(Tagged(events, "rotate")) = 2

\* The nodes of the subtree at n, n included.
Subtree(T, n) == IF n = NIL THEN {} ELSE ReachFrom(T, {n})

\* C16: one rotate callback per rotation, with (old subtree root, new
\* subtree root): the nodes a fixup pushed below a former descendant are
\* exactly the old arguments of its callbacks, each now the child of its
\* new argument; a fixup with no callback left every link as it was; there
\* are at most two callbacks, the second for the same new root as the
\* first, and nothing follows the last.
C16_RotateCallbackPerRotation ==
    [][op'[1] = "insert" =>
         \A T1 \in {LinkRedLeaf(Cur, op'[2])},
            rot \in {Tagged(events', "rotate")} :
         LET lowered == {n \in Linked(T1) :
                            /\ parent'[n] # NIL
                            /\ parent'[n] \in Subtree(T1, n) \ {n}}
         IN /\ Len(rot) <= 2
            /\ lowered = {rot[i][2] : i \in 1..Len(rot)}
            /\ Cardinality(lowered) = Len(rot)
            /\ \A i \in 1..Len(rot) :
                  /\ parent'[rot[i][2]] = rot[i][3]
                  /\ rot[i][2] \in {ph_left'[rot[i][3]], ph_right'[rot[i][3]]}
            /\ Len(rot) = 2 => rot[1][3] = rot[2][3]
            /\ Len(rot) = 0 =>
                  /\ ph_left' = T1.l /\ ph_right' = T1.r /\ root' = T1.root
                  /\ \A n \in Linked(T1) \ {root'} : parent'[n] = T1.p[n]
            /\ Len(rot) > 0 => events'[Len(events')][1] = "rotate"
            /\ \A i, j \in 1..Len(events') :
                  (events'[i][1] = "rotate" /\ i < j)
                      => events'[j][1] = "rotate"
    ]_vars

\* C16 witness: a fixup whose Case 1 step was followed by Case 2 and Case 3.
C16_Witness ==
    /\ op[1] = "insert"
    /\ events # <<>>
    /\ Len(Tagged(events, "rotate")) = 2
    /\ \E i \in 1..Len(events) : events[i][1] = "case1"
    /\ events[Len(events)][1] = "rotate"

\* C17: after ph_erase_init(n, root) the node n is empty (its parent word is
\* self-referential), no node reachable from the root is empty, and ph_next
\* and ph_prev of an empty node return no-node.
C17_EraseInitLeavesNodeEmpty ==
    /\ \A n \in Linked(Cur) :
          \A T2 \in {ph_erase_init(Cur, n)} :
              /\ PH_EMPTY_NODE(T2, n)
              /\ \A m \in Linked(T2) : ~PH_EMPTY_NODE(T2, m)
    /\ \A m \in Linked(Cur) : ~PH_EMPTY_NODE(Cur, m)
    /\ \A e \in Nodes :
          PH_EMPTY_NODE(Cur, e) =>
              (ph_next(Cur, e) = NIL /\ ph_prev(Cur, e) = NIL)

\* The child slots of linked nodes that hold n.
SlotsHolding(T, n) ==
    {<<m, side>> \in Linked(T) \X {"L", "R"} :
        (IF side = "L" THEN T.l[m] ELSE T.r[m]) = n}

WellFormed(T) ==
    /\ T.root # NIL => T.p[T.root] = NIL
    /\ \A n \in Linked(T) :
          /\ T.l[n] # NIL => (T.p[T.l[n]] = n /\ T.l[n] # n)
          /\ T.r[n] # NIL => (T.p[T.r[n]] = n /\ T.r[n] # n)
          /\ T.l[n] # NIL => T.l[n] # T.r[n]
          /\ Cardinality(SlotsHolding(T, n)) = (IF n = T.root THEN 0 ELSE 1)
          /\ Depth(T, n, NumNodes + 1) <= Cardinality(Linked(T))

\* C18: after every completed insert, erase or replace the links form a
\* tree: the root has no parent, every child records its parent and is not
\* that parent, every linked node is held by exactly one slot (the root by
\* none) and reaches the root by parent references, and no node has the
\* same left and right child.
C18_LinksFormTree == \A T \in {Cur} : WellFormed(T)

\* C18 witness: a replace of a node with two children, in a tree of at least
\* six nodes that erases have reshaped.
C18_Witness ==
    /\ op[1] = "replace"
    /\ Cardinality(Linked(Cur)) >= 6
    /\ ph_left[op[3]] # NIL /\ ph_right[op[3]] # NIL
    /\ \E n \in Nodes \ Linked(Cur) : n # op[2]

\* x's ancestors in T.
RECURSIVE Ancestors(_, _, _)
Ancestors(T, n, fuel) ==
    IF T.p[n] = NIL \/ fuel = 0 THEN {}
    ELSE {T.p[n]} \cup Ancestors(T, T.p[n], fuel - 1)

\* The colours when the Case 1 steps c1[1..i] of a fixup on T1 are done:
\* each coloured its node RED and that node's two children BLACK.
RECURSIVE ColoursAfterCase1(_, _, _)
ColoursAfterCase1(T1, c1, i) ==
    IF i = 0 THEN T1.c
    ELSE LET c == ColoursAfterCase1(T1, c1, i - 1)
             g == c1[i][2]
         IN [c EXCEPT ![g] = ph_RED, ![T1.l[g]] = ph_BLACK,
                      ![T1.r[g]] = ph_BLACK]

\* C20: insert fixup for the linked leaf x changes no link, parent reference
\* or colour of a node that is neither x, nor an ancestor of x when it was
\* linked, nor a child of such an ancestor; and a subtree root that a
\* rotation moved to another parent was BLACK before the rotation and is
\* BLACK after it.
C20_FixupFrame ==
    [][op'[1] = "insert" =>
         \A T1 \in {LinkRedLeaf(Cur, op'[2])} :
         \A anc \in {Ancestors(T1, op'[2], NumNodes)} :
         LET x == op'[2]
             near == {x} \cup anc \cup {T1.l[a] : a \in anc}
                         \cup {T1.r[a] : a \in anc}
             moved == {n \in Linked(T1) \ ({x} \cup anc) :
                          parent'[n] # T1.p[n]}
             before == ColoursAfterCase1(T1, Tagged(events', "case1"),
                                         Len(Tagged(events', "case1")))
         IN /\ \A n \in Nodes \ near :
                  /\ ph_left'[n] = T1.l[n]
                  /\ ph_right'[n] = T1.r[n]
                  /\ parent'[n] = T1.p[n]
                  /\ color'[n] = T1.c[n]
            /\ \A n \in moved :
                  before[n] = ph_BLACK /\ color'[n] = ph_BLACK
    ]_vars

\* C20 witness: a fixup whose rotation, after a Case 1 step, handed the
\* lowered node a subtree, in a tree with nodes outside x's path.
C20_Witness ==
    /\ op[1] = "insert"
    /\ Len(Tagged(events, "case1")) >= 1
    /\ \E i \in 1..Len(events) :
          /\ events[i][1] = "rotate"
          /\ ph_left[events[i][2]] # NIL
          /\ ph_right[events[i][2]] # NIL
    /\ Cardinality(Linked(Cur)) >= 9

\* The tree position a node stands for: new stands where victim stood.
Position(n) == IF wnew # NIL /\ n = wnew THEN wvictim ELSE n

VictimIsRightChild ==
    /\ wparent # NIL
    /\ ph_right[wparent] \in {wvictim, wnew}

\* The nodes the walk has returned.
ReturnedNodes ==
    {st[1] : st \in rseen.steps} \cup {st[2] : st \in rseen.steps}
        \cup ({rseen.last} \ {NIL})

\* C19 as stated: a ph_first -> ph_next walk interleaved with one
\* ph_replace_node_rcu returns tree positions in strictly ascending order,
\* visiting no position twice (victim and new being one position).
C19_WalkStrictlyAscending ==
    \A st \in rseen.steps : Position(st[1]) < Position(st[2])

\* C19, amended: the walk reads no uninitialised field and ends once the
\* writer has returned; it returns every position of the tree; the positions
\* ascend strictly when victim is the root or a left child, and when victim
\* is a right child the only step back is to victim's parent, returned
\* again after a node of victim's subtree.
C19_WalkEndsAscendingUnlessRightChild ==
    /\ [](/\ ~rfault
          /\ \A st \in rseen.steps :
                \/ Position(st[1]) < Position(st[2])
                \/ /\ VictimIsRightChild
                   /\ st[2] = wparent
                   /\ Position(st[1]) > wparent
          /\ rpc = "done" =>
                {Position(n) : n \in ReturnedNodes}
                    = {Position(n) : n \in Linked(Cur)})
    /\ <>(rpc = "done")

\* C19 witness: the walk has ended after it stood on victim, without a right
\* child, while the writer switched the parent's right slot to new, and
\* climbed by victim's parent reference.
C19_Witness ==
    /\ rpc = "done"
    /\ replaced = 1
    /\ VictimIsRightChild
    /\ ph_right[wvictim] = NIL
    /\ <<wvictim, wparent>> \in rseen.steps

====
